---- MODULE Spec2Model ----
(***************************************************************************)
(* Model of the module functions of hive_agent_client (chat, entry,        *)
(* database, files, tools, sample prompts).  One call of one module        *)
(* function is followed from its entry to the value it returns or the      *)
(* exception it raises; the transport (httpx.AsyncClient) and the local    *)
(* filesystem are the environment.                                         *)
(*                                                                         *)
(* Strings are sequences of one-character tokens; the literal pieces of    *)
(* an f-string are single tokens, so a message is the concatenation of     *)
(* its literal pieces with the interpolated strings.                       *)
(***************************************************************************)
EXTENDS Integers, Sequences, FiniteSets, TLC

\* ------------------------------------------------------------------ bounds
MaxLen == 2
MaxFiles == 2
MaxJson == 2
MaxItems == 2
MaxCalls == 2
MaxTasks == 2

\* ------------------------------------------------------- generic helpers
Last(s) == s[Len(s)]

RECURSIVE Flatten(_)
Flatten(ss) == IF ss = <<>> THEN <<>> ELSE Head(ss) \o Flatten(Tail(ss))

SeqsUpTo(S, n) == UNION {[1..k -> S] : k \in 0..n}

\* t occurs in s as a contiguous run of tokens (Python's `t in s`)
Contains(s, t) ==
    \E i \in 0..(Len(s) - Len(t)) :
        \A j \in 1..Len(t) : s[i + j] = t[j]

\* ------------------------------------------------------------ input sets
Chars == {"a", " ", "\n", "\""}
Whitespace == {" ", "\n"}
Contents == SeqsUpTo(Chars, MaxLen)

BaseUrls == {<<"http://h/v1">>}
UserIds == {<<"u1">>}
SessionIds == {<<"s1">>}
Namespaces == {<<"ns">>}
EntryIds == {<<"e1">>}
TableNames == {<<"t1">>}
RowIds == {<<"7">>}
Filenames == {<<"a.txt">>, <<"b.txt">>}
Dicts == {"d0", "d1"}
Filters == {"None", "d1"}
ToolLists == {"tools0", "tools1"}

\* the local filesystem: a path is a sequence of components
ExistingPaths == {<<"d", "a.txt">>}
Paths == ExistingPaths \cup {<<"d", "missing.txt">>}

\* an element of send_chat_message's files argument
FileArgs ==
    [kind : {"str"}, path : Paths, iobase : {TRUE}]
    \cup [kind : {"UploadFile"}, path : {<<"up.png">>}, iobase : BOOLEAN]
    \cup [kind : {"other"}, path : {<<"obj">>}, iobase : {FALSE}]

\* ------------------------------------------------- str / json conversions
RECURSIVE lstrip(_)
lstrip(s) ==
    IF s # <<>> /\ Head(s) \in Whitespace THEN lstrip(Tail(s)) ELSE s

RECURSIVE rstrip(_)
rstrip(s) ==
    IF s # <<>> /\ Last(s) \in Whitespace
    THEN rstrip(SubSeq(s, 1, Len(s) - 1)) ELSE s

strip(s) == rstrip(lstrip(s))

\* json.dumps of one character inside a JSON string
JsonEscapeChar(c) ==
    CASE c = "\"" -> <<"\\", "\"">>
      [] c = "\\" -> <<"\\", "\\">>
      [] c = "\n" -> <<"\\", "n">>
      [] OTHER -> <<c>>

JsonEscape(s) == Flatten([i \in 1..Len(s) |-> JsonEscapeChar(s[i])])

ChatDataPrefix == "{\"messages\": [{\"role\": \"user\", \"content\": \""
ChatDataSuffix == "\"}]}"

DumpChatData_Stripped(content) ==
    <<ChatDataPrefix>> \o JsonEscape(strip(content)) \o <<ChatDataSuffix>>

\* json.dumps({"messages": [{"role": "user", "content": content}]})
DumpChatData(content) ==
    <<ChatDataPrefix>> \o JsonEscape(content) \o <<ChatDataSuffix>>

os_path_basename(path) == <<Last(path)>>

guess_type(path) ==
    IF Last(path) = "a.txt" THEN "text/plain"
    ELSE IF Last(path) = "missing.txt" THEN "text/plain" ELSE "None"

\* ---------------------------------------------------- transport results
Statuses == {200, 204, 302, 400, 500}

StatusStr(n) ==
    CASE n = 200 -> "200" [] n = 204 -> "204" [] n = 302 -> "302"
      [] n = 400 -> "400" [] n = 500 -> "500"

DigitTok == <<"1", "2">>
Payloads == SeqsUpTo(1..Len(DigitTok), MaxJson)

\* the server's serialisation of a JSON list of numbers
RECURSIVE JoinItems(_)
JoinItems(p) ==
    IF p = <<>> THEN <<>>
    ELSE IF Len(p) = 1 THEN <<DigitTok[p[1]]>>
    ELSE <<DigitTok[p[1]], ",">> \o JoinItems(Tail(p))

ServerJson(p) == <<"[">> \o JoinItems(p) \o <<"]">>

Texts == {ServerJson(p) : p \in Payloads} \cup {<<>>, <<"Bad request">>}

DigitVal(t) == CHOOSE n \in 1..Len(DigitTok) : DigitTok[n] = t
IsDigit(t) == \E n \in 1..Len(DigitTok) : DigitTok[n] = t

\* response.json(): the body parsed as JSON, or a decoding error
IsJson(text) ==
    /\ Len(text) >= 2
    /\ text[1] = "[" /\ Last(text) = "]"
    /\ LET inner == SubSeq(text, 2, Len(text) - 1) IN
         \/ inner = <<>>
         \/ /\ Len(inner) % 2 = 1
            /\ \A i \in 1..Len(inner) :
                 IF i % 2 = 1 THEN IsDigit(inner[i]) ELSE inner[i] = ","

JsonLoads(text) ==
    LET inner == SubSeq(text, 2, Len(text) - 1) IN
    [i \in 1..((Len(inner) + 1) \div 2) |-> DigitVal(inner[2 * i - 1])]

FaultDescs == {<<"timed out">>}

Responses == [kind : {"response"}, status : Statuses, text : Texts]
Faults == [kind : {"RequestError", "RuntimeError"}, status : {0}, text : FaultDescs]
TransportResults == Responses \cup Faults

NoResult == [kind |-> "none", status |-> 0, text |-> <<>>]

\* response.raise_for_status() raises httpx.HTTPStatusError (httpx 0.27)
is_success(status) == status >= 200 /\ status <= 299

\* ------------------------------------------------------------------ state
VARIABLES
    pc,        \* "idle" | "awaiting" (suspended in the transport call) | "done"
    fn,        \* the module function being called
    args,      \* its arguments
    handles,   \* one entry per element of the function's file list
    requests,  \* the calls made on http_client during this call
    response,  \* what the transport answered
    outcome,   \* the value returned or the exception raised
    connections, \* the WebSocket connections stream_entry established
    frames,    \* the frames stream_entry sent, each with the server's answer
    yielded,   \* the responses stream_entry yielded to its consumer
    fault,     \* the exception raised into stream_entry, and where
    ctor,      \* the arguments HiveAgentClient was constructed with, if it was
    client,    \* the HiveAgentClient instance: its base_url and http_client
    is_closed, \* whether the http_client in use has been closed
    method,    \* the HiveAgentClient method being called
    calls,     \* the number of HiveAgentClient methods called so far
    result,    \* what the HiveAgentClient method returned or raised
    tasks      \* the calls in flight together on one instance, each with its locals

streamvars == <<connections, frames, yielded, fault>>

\* the instance and its transport, which no module function touches
instancevars == <<ctor, client, is_closed, method, calls, tasks>>

vars ==
    <<pc, fn, args, handles, requests, response, outcome, streamvars,
      instancevars, result>>

NoArgs == [base_url |-> <<>>]
NoFault == [at |-> "none", exc |-> "none"]
NoValue == [t |-> "none", text |-> <<>>, json |-> <<>>]
NoOutcome ==
    [kind |-> "none", exc |-> "", msg |-> <<>>, cause |-> "None", value |-> NoValue]

Return(v) ==
    [kind |-> "return", exc |-> "", msg |-> <<>>, cause |-> "None", value |-> v]
Raise(exc, msg, cause) ==
    [kind |-> "raise", exc |-> exc, msg |-> msg, cause |-> cause, value |-> NoValue]

TextValue(text) == [t |-> "text", text |-> text, json |-> <<>>]
JsonValue(json) == [t |-> "json", text |-> <<>>, json |-> json]

\* ------------------------------------------------- client: HiveAgentClient
\* the constructor's arguments; a trailing "/" of base_url is a token of its own
CtorArgs ==
    [base_url : {<<"http://x">>, <<"http://x", "/">>, <<"http://x", "/", "/">>},
     version : {<<"v1">>}]

\* no instance: the module functions are called directly
NoCtor == [base_url |-> <<>>, version |-> <<>>]
NoClient == [base_url |-> <<>>, http_client |-> "none"]

endswith(s, t) == s # <<>> /\ Last(s) = t

HiveAgentClient_init_KeepSlash(c) ==
    [base_url |-> c.base_url \o <<"/">> \o c.version,
     http_client |-> "AsyncClient"]

\* __init__: one trailing slash is dropped, then "/{version}" is appended
HiveAgentClient_init(c) ==
    [base_url |->
        (IF endswith(c.base_url, "/")
         THEN SubSeq(c.base_url, 1, Len(c.base_url) - 1)
         ELSE c.base_url) \o <<"/">> \o c.version,
     http_client |-> "AsyncClient"]

\* the module function each method awaits
Delegate(m) ==
    CASE m = "chat" -> "send_chat_message"
      [] m = "chat_media" -> "send_chat_media"
      [] OTHER -> m

FacadePrefix_LogText(m) ==
    CASE m = "chat" -> "Failed to send chat message - "
      [] OTHER -> "Failed: "

\* the words each method puts before the error it caught
FacadePrefix(m) ==
    CASE m = "chat" -> "Failed to send chat message: "
      [] m = "get_chat_history" -> "Failed to get chat history: "
      [] m = "get_all_chats" -> "Failed to get all chats: "
      [] m = "chat_media" -> "Failed to send chat media: "
      [] m = "create_table" -> "Failed to create table: "
      [] m = "insert_data" -> "Failed to insert data: "
      [] m = "read_data" -> "Failed to read data: "
      [] m = "update_data" -> "Failed to update data: "
      [] m = "delete_data" -> "Failed to delete data: "
      [] m = "upload_files" -> "Failed to upload files: "
      [] m = "list_files" -> "Failed to list files: "
      [] m = "delete_file" -> "Failed to delete file: "
      [] m = "rename_file" -> "Failed to rename file: "
      [] m = "install_tools" -> "Failed to install tools: "

\* method m is `try: return await <function>(...)` / `except Exception as e:
\* raise Exception(f"<prefix>{e}")`: what it makes of the function's outcome o
MethodResult(m, o) ==
    IF o.kind = "raise"
    THEN Raise("Exception", <<FacadePrefix(m)>> \o o.msg, "None")
    ELSE o

FacadeResult_Reraise(o) == IF method = "none" THEN NoOutcome ELSE o

\* the result of the method being called, if one is
FacadeResult(o) ==
    IF method = "none" THEN NoOutcome ELSE MethodResult(method, o)

\* the base_url a module function is given: the caller's, or self.base_url
InjectedBaseUrls == IF client = NoClient THEN BaseUrls ELSE {client.base_url}

\* the files send_chat_message is given: the caller's; chat() passes none
InjectedFiles ==
    IF client = NoClient THEN SeqsUpTo(FileArgs, MaxFiles) ELSE {<<>>}

\* httpx refuses to send on a client that has been closed
ClosedFault ==
    [kind |-> "RuntimeError", status |-> 0,
     text |-> <<"Cannot send a request, as the client has been closed.">>]

\* what `await http_client.<method>(...)` can come back with
Answered == IF is_closed THEN {ClosedFault} ELSE TransportResults

\* function f can be entered: called directly, or awaited by the method
Callable(f) ==
    /\ pc = "idle"
    /\ client = NoClient \/ Delegate(method) = f

Init ==
    /\ pc = "idle"
    /\ fn = "none"
    /\ args = NoArgs
    /\ handles = <<>>
    /\ requests = <<>>
    /\ response = NoResult
    /\ outcome = NoOutcome
    /\ connections = <<>>
    /\ frames = <<>>
    /\ yielded = <<>>
    /\ fault = NoFault
    /\ ctor \in CtorArgs \cup {NoCtor}
    /\ client = IF ctor = NoCtor THEN NoClient ELSE HiveAgentClient_init(ctor)
    /\ is_closed = FALSE
    /\ method = "none"
    /\ calls = 0
    /\ result = NoOutcome
    /\ tasks = <<>>

\* ------------------------------------------------- the body of a try block
\* `await http_client.<method>(...)` followed by response.raise_for_status():
\* the exception that leaves it, or "ok"
AwaitRequest(r) ==
    IF r.kind # "response" THEN Raise(r.kind, r.text, "None")
    ELSE IF ~is_success(r.status)
    THEN Raise("HTTPStatusError", <<"status error for url">>, "None")
    ELSE NoOutcome

\* ... return response.text
TryText(r) ==
    IF AwaitRequest(r).kind = "raise" THEN AwaitRequest(r)
    ELSE Return(TextValue(r.text))

TryJson_Text(r) ==
    IF AwaitRequest(r).kind = "raise" THEN AwaitRequest(r)
    ELSE Return(TextValue(r.text))

\* ... return response.json()
TryJson(r) ==
    IF AwaitRequest(r).kind = "raise" THEN AwaitRequest(r)
    ELSE IF ~IsJson(r.text)
    THEN Raise("JSONDecodeError", <<"Expecting value">>, "None")
    ELSE Return(JsonValue(JsonLoads(r.text)))

ExceptAll_NoRequestError(t, r, what, api) ==
    IF t.kind # "raise" THEN t
    ELSE IF t.exc = "HTTPStatusError"
    THEN Raise("Exception",
               <<"HTTP error occurred when ", what, api, StatusStr(r.status), " - ">>
                   \o r.text,
               "None")
    ELSE Raise("Exception",
               <<"An unexpected error occurred when ", what, api>> \o t.msg, "None")

\* except httpx.HTTPStatusError / httpx.RequestError / Exception of the chat
\* and tools modules; `what` and `api` are the words of the message
ExceptAll(t, r, what, api) ==
    IF t.kind # "raise" THEN t
    ELSE IF t.exc = "HTTPStatusError"
    THEN Raise("Exception",
               <<"HTTP error occurred when ", what, api, StatusStr(r.status), " - ">>
                   \o r.text,
               "None")
    ELSE IF t.exc = "RequestError"
    THEN Raise("Exception",
               <<"Request error occurred when ", what, api>> \o t.msg, "None")
    ELSE Raise("Exception",
               <<"An unexpected error occurred when ", what, api>> \o t.msg, "None")

ExceptStatus_NoText(t, r, prefix) ==
    IF t.kind = "raise" /\ t.exc = "HTTPStatusError"
    THEN Raise("Exception", prefix, "HTTPStatusError")
    ELSE t

\* except httpx.HTTPStatusError as e: raise Exception(f"{prefix}{e.response.text}") from e
\* of the entry, database, files and sample-prompts modules
ExceptStatus(t, r, prefix) ==
    IF t.kind = "raise" /\ t.exc = "HTTPStatusError"
    THEN Raise("Exception", prefix \o r.text, "HTTPStatusError")
    ELSE t

\* ------------------------------------------------------- generic steps
Call_CloseTransport(f, a, verb, url, kw) ==
    /\ Callable(f)
    /\ pc' = "awaiting"
    /\ fn' = f
    /\ args' = a
    /\ requests' = Append(requests, [method |-> verb, url |-> url, kw |-> kw])
    /\ is_closed' = TRUE
    /\ UNCHANGED <<handles, response, outcome, streamvars, ctor, client,
                   method, calls, tasks, result>>

\* the function reaches `await http_client.<method>(url, **kw)`
Call(f, a, verb, url, kw) ==
    /\ Callable(f)
    /\ pc' = "awaiting"
    /\ fn' = f
    /\ args' = a
    /\ requests' = Append(requests, [method |-> verb, url |-> url, kw |-> kw])
    /\ UNCHANGED <<handles, response, outcome, streamvars, instancevars, result>>

Finish_Retry(r, o) ==
    /\ pc' = "done"
    /\ response' = r
    /\ outcome' = o
    /\ result' = FacadeResult(o)
    /\ requests' = IF r.kind = "response" THEN requests
                   ELSE Append(requests, requests[1])
    /\ UNCHANGED <<fn, args, streamvars, instancevars>>

\* the transport answers r and the function runs to its end with outcome o
Finish(r, o) ==
    /\ pc' = "done"
    /\ response' = r
    /\ outcome' = o
    /\ result' = FacadeResult(o)
    /\ UNCHANGED <<fn, args, requests, streamvars, instancevars>>

Awaiting(f) == pc = "awaiting" /\ fn = f

\* ------------------------------------------------------------ chat module
\* the loop over `files`: the entries of files_to_send, and whether open() raised
RECURSIVE BuildFilesToSend(_, _)
BuildFilesToSend(files, acc) ==
    IF files = <<>> THEN [entries |-> acc, failed |-> FALSE]
    ELSE LET file == Head(files) IN
         IF file.kind = "UploadFile"
         THEN BuildFilesToSend(Tail(files),
                  Append(acc, [filename |-> file.path, owner |-> "caller",
                               iobase |-> file.iobase, open |-> TRUE,
                               content_type |-> "image/png"]))
         ELSE IF file.kind = "str"
         THEN IF file.path \in ExistingPaths
              THEN BuildFilesToSend(Tail(files),
                       Append(acc, [filename |-> os_path_basename(file.path),
                                    owner |-> "library",
                                    iobase |-> TRUE, open |-> TRUE,
                                    content_type |-> guess_type(file.path)]))
              ELSE [entries |-> acc, failed |-> TRUE]
         ELSE BuildFilesToSend(Tail(files), acc)

\* finally: close every entry of files_to_send that is an io.IOBase
CloseIOBase(entries) ==
    [i \in 1..Len(entries) |->
        IF entries[i].iobase THEN [entries[i] EXCEPT !.open = FALSE]
        ELSE entries[i]]

FormData(a) ==
    [user_id |-> a.user_id, session_id |-> a.session_id,
     chat_data |-> DumpChatData(a.content)]

\* the parts handed to the transport: (field, (filename, file, content_type))
Parts(entries) ==
    [i \in 1..Len(entries) |->
        [field |-> "files", filename |-> entries[i].filename, file |-> i,
         content_type |-> entries[i].content_type]]

ContentIsEmpty_NoStrip(content) == content = <<>>

ContentIsEmpty(content) == strip(content) = <<>>

send_chat_message_call ==
    /\ Callable("send_chat_message")
    /\ \E a \in [base_url : InjectedBaseUrls, user_id : UserIds,
                 session_id : SessionIds, content : Contents,
                 files : InjectedFiles] :
        /\ fn' = "send_chat_message"
        /\ args' = a
        /\ response' = response
        /\ UNCHANGED <<streamvars, instancevars>>
        /\ IF ContentIsEmpty(a.content)
           THEN /\ pc' = "done"
                /\ outcome' = Raise("ValueError", <<"Content must not be empty">>, "None")
                /\ UNCHANGED <<handles, requests>>
           ELSE LET built == BuildFilesToSend(a.files, <<>>) IN
                IF built.failed
                THEN /\ pc' = "done"
                     /\ handles' = built.entries
                     /\ outcome' = Raise("FileNotFoundError", <<"No such file">>, "None")
                     /\ UNCHANGED requests
                ELSE /\ pc' = "awaiting"
                     /\ handles' = built.entries
                     /\ requests' = Append(requests,
                            [method |-> "POST",
                             url |-> a.base_url \o <<"/chat">>,
                             kw |-> [data |-> FormData(a),
                                     files |-> Parts(built.entries)]])
                     /\ UNCHANGED outcome
    /\ result' = FacadeResult(outcome')

send_chat_message_return ==
    /\ Awaiting("send_chat_message")
    /\ \E r \in Answered :
        Finish(r, ExceptAll(TryText(r), r, "sending message to", " the chat API: "))
    /\ handles' = CloseIOBase(handles)

\* the request get_chat_history(http_client, base_url, ...) issues
get_chat_history_request(a) ==
    [method |-> "GET", url |-> a.base_url \o <<"/chat_history">>,
     kw |-> [params |-> [user_id |-> a.user_id, session_id |-> a.session_id]]]

\* what get_chat_history makes of the transport's answer r
get_chat_history_outcome(r) ==
    ExceptAll(TryJson(r), r, "fetching chat history from", " the chat API: ")

get_chat_history_call ==
    /\ pc = "idle"
    /\ \E a \in [base_url : InjectedBaseUrls, user_id : UserIds, session_id : SessionIds] :
        LET req == get_chat_history_request(a) IN
        Call("get_chat_history", a, req.method, req.url, req.kw)

get_chat_history_return ==
    /\ Awaiting("get_chat_history")
    /\ \E r \in Answered : Finish(r, get_chat_history_outcome(r))
    /\ UNCHANGED handles

\* the request get_all_chats(http_client, base_url, user_id) issues
get_all_chats_request(a) ==
    [method |-> "GET", url |-> a.base_url \o <<"/all_chats">>,
     kw |-> [params |-> [user_id |-> a.user_id]]]

\* what get_all_chats makes of the transport's answer r
get_all_chats_outcome(r) ==
    ExceptAll(TryJson(r), r, "fetching all chats from", " the chat API: ")

get_all_chats_call ==
    /\ pc = "idle"
    /\ \E a \in [base_url : InjectedBaseUrls, user_id : UserIds] :
        LET req == get_all_chats_request(a) IN
        Call("get_all_chats", a, req.method, req.url, req.kw)

get_all_chats_return ==
    /\ Awaiting("get_all_chats")
    /\ \E r \in Answered : Finish(r, get_all_chats_outcome(r))
    /\ UNCHANGED handles

\* ----------------------------------------------------------- entry module
create_entry_call ==
    /\ pc = "idle"
    /\ \E a \in [base_url : InjectedBaseUrls, namespace : Namespaces, data : Dicts] :
        Call("create_entry", a, "POST",
             a.base_url \o <<"/api/entry/">> \o a.namespace,
             [json |-> a.data])

create_entry_return ==
    /\ Awaiting("create_entry")
    /\ \E r \in Answered :
        Finish(r, ExceptStatus(TryJson(r), r,
                  <<"Failed to create entry in ">> \o args.namespace \o <<": ">>))
    /\ UNCHANGED handles

get_entries_call ==
    /\ pc = "idle"
    /\ \E a \in [base_url : InjectedBaseUrls, namespace : Namespaces] :
        Call("get_entries", a, "GET",
             a.base_url \o <<"/api/entry/">> \o a.namespace,
             [none |-> TRUE])

get_entries_return ==
    /\ Awaiting("get_entries")
    /\ \E r \in Answered :
        Finish(r, ExceptStatus(TryJson(r), r,
                  <<"Failed to get entries from ">> \o args.namespace \o <<": ">>))
    /\ UNCHANGED handles

get_entry_by_id_call ==
    /\ pc = "idle"
    /\ \E a \in [base_url : InjectedBaseUrls, namespace : Namespaces, entry_id : EntryIds] :
        Call("get_entry_by_id", a, "GET",
             a.base_url \o <<"/api/entry/">> \o a.namespace \o <<"/">> \o a.entry_id,
             [none |-> TRUE])

get_entry_by_id_return ==
    /\ Awaiting("get_entry_by_id")
    /\ \E r \in Answered :
        Finish(r, ExceptStatus(TryJson(r), r,
                  <<"Failed to get entry ">> \o args.entry_id \o <<" from ">>
                      \o args.namespace \o <<": ">>))
    /\ UNCHANGED handles

update_entry_call ==
    /\ pc = "idle"
    /\ \E a \in [base_url : InjectedBaseUrls, namespace : Namespaces, entry_id : EntryIds,
              data : Dicts] :
        Call("update_entry", a, "PUT",
             a.base_url \o <<"/api/entry/">> \o a.namespace \o <<"/">> \o a.entry_id,
             [json |-> a.data])

update_entry_return ==
    /\ Awaiting("update_entry")
    /\ \E r \in Answered :
        Finish(r, ExceptStatus(TryJson(r), r,
                  <<"Failed to update entry ">> \o args.entry_id \o <<" in ">>
                      \o args.namespace \o <<": ">>))
    /\ UNCHANGED handles

delete_entry_call_NoId ==
    /\ pc = "idle"
    /\ \E a \in [base_url : InjectedBaseUrls, namespace : Namespaces, entry_id : EntryIds] :
        Call("delete_entry", a, "DELETE",
             a.base_url \o <<"/api/entry/">> \o a.namespace,
             [none |-> TRUE])

delete_entry_call ==
    /\ pc = "idle"
    /\ \E a \in [base_url : InjectedBaseUrls, namespace : Namespaces, entry_id : EntryIds] :
        Call("delete_entry", a, "DELETE",
             a.base_url \o <<"/api/entry/">> \o a.namespace \o <<"/">> \o a.entry_id,
             [none |-> TRUE])

delete_entry_return ==
    /\ Awaiting("delete_entry")
    /\ \E r \in Answered :
        Finish(r, ExceptStatus(TryJson(r), r,
                  <<"Failed to delete entry ">> \o args.entry_id \o <<" from ">>
                      \o args.namespace \o <<": ">>))
    /\ UNCHANGED handles

\* -------------------------------------------------------- database module
create_table_call ==
    /\ pc = "idle"
    /\ \E a \in [base_url : InjectedBaseUrls, table_name : TableNames, columns : Dicts] :
        Call("create_table", a, "POST",
             a.base_url \o <<"/database/create-table">>,
             [json |-> [table_name |-> a.table_name, columns |-> a.columns]])

create_table_return ==
    /\ Awaiting("create_table")
    /\ \E r \in Answered :
        Finish(r, ExceptStatus(TryJson(r), r,
                  <<"Failed to create table ">> \o args.table_name \o <<": ">>))
    /\ UNCHANGED handles

\* the request insert_data(http_client, base_url, table_name, data) issues
insert_data_request(a) ==
    [method |-> "POST", url |-> a.base_url \o <<"/database/insert-data">>,
     kw |-> [json |-> [table_name |-> a.table_name, data |-> a.data]]]

\* what insert_data, called with a, makes of the transport's answer r
insert_data_outcome(a, r) ==
    ExceptStatus(TryJson(r), r,
                 <<"Failed to insert data into ">> \o a.table_name \o <<": ">>)

insert_data_call ==
    /\ pc = "idle"
    /\ \E a \in [base_url : InjectedBaseUrls, table_name : TableNames, data : Dicts] :
        LET req == insert_data_request(a) IN
        Call("insert_data", a, req.method, req.url, req.kw)

insert_data_return ==
    /\ Awaiting("insert_data")
    /\ \E r \in Answered : Finish(r, insert_data_outcome(args, r))
    /\ UNCHANGED handles

read_data_call ==
    /\ pc = "idle"
    /\ \E a \in [base_url : InjectedBaseUrls, table_name : TableNames, filters : Filters] :
        Call("read_data", a, "POST",
             a.base_url \o <<"/database/read-data">>,
             [json |-> [table_name |-> a.table_name, filters |-> a.filters]])

read_data_return ==
    /\ Awaiting("read_data")
    /\ \E r \in Answered :
        Finish(r, ExceptStatus(TryJson(r), r,
                  <<"Failed to read data from ">> \o args.table_name \o <<": ">>))
    /\ UNCHANGED handles

update_data_call ==
    /\ pc = "idle"
    /\ \E a \in [base_url : InjectedBaseUrls, table_name : TableNames, row_id : RowIds,
              new_data : Dicts] :
        Call("update_data", a, "PUT",
             a.base_url \o <<"/database/update-data">>,
             [json |-> [table_name |-> a.table_name, id |-> a.row_id,
                        data |-> a.new_data]])

update_data_return ==
    /\ Awaiting("update_data")
    /\ \E r \in Answered :
        Finish(r, ExceptStatus(TryJson(r), r,
                  <<"Failed to update data in ">> \o args.table_name
                      \o <<" with id ">> \o args.row_id \o <<": ">>))
    /\ UNCHANGED handles

DumpDeletePayload_NoId(table_name, row_id) ==
    <<"{\"table_name\": \"">> \o JsonEscape(table_name) \o <<"\"}">>

\* json.dumps({"table_name": table_name, "id": row_id})
DumpDeletePayload(table_name, row_id) ==
    <<"{\"table_name\": \"">> \o JsonEscape(table_name) \o <<"\", \"id\": ">>
        \o row_id \o <<"}">>

delete_data_call ==
    /\ pc = "idle"
    /\ \E a \in [base_url : InjectedBaseUrls, table_name : TableNames, row_id : RowIds] :
        Call("delete_data", a, "DELETE",
             a.base_url \o <<"/database/delete-data">>,
             [content |-> DumpDeletePayload(a.table_name, a.row_id)])

delete_data_return ==
    /\ Awaiting("delete_data")
    /\ \E r \in Answered :
        Finish(r, ExceptStatus(TryJson(r), r,
                  <<"Failed to delete data from ">> \o args.table_name
                      \o <<" with id ">> \o args.row_id \o <<": ">>))
    /\ UNCHANGED handles

\* ----------------------------------------------------------- files module
\* [(... open(file_path, "rb") ...) for file_path in file_paths]
RECURSIVE OpenAll(_, _)
OpenAll(file_paths, acc) ==
    IF file_paths = <<>> THEN [entries |-> acc, failed |-> FALSE]
    ELSE IF Head(file_paths) \in ExistingPaths
    THEN OpenAll(Tail(file_paths),
             Append(acc, [filename |-> os_path_basename(Head(file_paths)),
                          owner |-> "library", iobase |-> TRUE, open |-> TRUE,
                          content_type |-> "multipart/form-data"]))
    ELSE [entries |-> acc, failed |-> TRUE]

CloseAll_SkipLast(entries) ==
    [i \in 1..Len(entries) |->
        IF i < Len(entries) THEN [entries[i] EXCEPT !.open = FALSE] ELSE entries[i]]

\* finally: for _, (name, file, _) in files: file.close()
CloseAll(entries) ==
    [i \in 1..Len(entries) |-> [entries[i] EXCEPT !.open = FALSE]]

\* When open() raises inside the comprehension the partial list is never bound
\* to `files`: nothing in the function closes its handles, and whether the
\* runtime has finalised them when the error reaches the caller depends on the
\* interpreter (reference counting or not).
upload_files_call ==
    /\ Callable("upload_files")
    /\ \E a \in [base_url : InjectedBaseUrls, file_paths : SeqsUpTo(Paths, MaxFiles)] :
        LET opened == OpenAll(a.file_paths, <<>>) IN
        /\ fn' = "upload_files"
        /\ args' = a
        /\ response' = response
        /\ UNCHANGED <<streamvars, instancevars>>
        /\ IF opened.failed
           THEN /\ pc' = "done"
                /\ \E finalised \in BOOLEAN :
                     handles' = IF finalised THEN CloseAll(opened.entries)
                                ELSE opened.entries
                /\ outcome' = Raise("FileNotFoundError", <<"No such file">>, "None")
                /\ UNCHANGED requests
           ELSE /\ pc' = "awaiting"
                /\ handles' = opened.entries
                /\ requests' = Append(requests,
                       [method |-> "POST",
                        url |-> a.base_url \o <<"/uploadfiles/">>,
                        kw |-> [files |-> Parts(opened.entries)]])
                /\ UNCHANGED outcome
    /\ result' = FacadeResult(outcome')

upload_files_return ==
    /\ Awaiting("upload_files")
    /\ \E r \in Answered :
        Finish(r, ExceptStatus(TryJson(r), r, <<"Failed to upload files: ">>))
    /\ handles' = CloseAll(handles)

list_files_call ==
    /\ pc = "idle"
    /\ \E a \in [base_url : InjectedBaseUrls] :
        Call("list_files", a, "GET", a.base_url \o <<"/files/">>, [none |-> TRUE])

list_files_return ==
    /\ Awaiting("list_files")
    /\ \E r \in Answered :
        Finish(r, ExceptStatus(TryJson(r), r, <<"Failed to list files: ">>))
    /\ UNCHANGED handles

delete_file_call ==
    /\ pc = "idle"
    /\ \E a \in [base_url : InjectedBaseUrls, filename : Filenames] :
        Call("delete_file", a, "DELETE",
             a.base_url \o <<"/files/">> \o a.filename, [none |-> TRUE])

delete_file_return ==
    /\ Awaiting("delete_file")
    /\ \E r \in Answered :
        Finish(r, ExceptStatus(TryJson(r), r,
                  <<"Failed to delete file ">> \o args.filename \o <<": ">>))
    /\ UNCHANGED handles

rename_file_call ==
    /\ pc = "idle"
    /\ \E a \in [base_url : InjectedBaseUrls, old_filename : Filenames,
              new_filename : Filenames] :
        Call("rename_file", a, "PUT",
             a.base_url \o <<"/files/">> \o a.old_filename \o <<"/">>
                 \o a.new_filename,
             [none |-> TRUE])

rename_file_return ==
    /\ Awaiting("rename_file")
    /\ \E r \in Answered :
        Finish(r, ExceptStatus(TryJson(r), r,
                  <<"Failed to rename file from ">> \o args.old_filename
                      \o <<" to ">> \o args.new_filename \o <<": ">>))
    /\ UNCHANGED handles

\* ------------------------------------------- tools and sample prompts
install_tools_call ==
    /\ pc = "idle"
    /\ \E a \in [base_url : InjectedBaseUrls, tools : ToolLists] :
        Call("install_tools", a, "POST", a.base_url \o <<"/install_tools">>,
             [json |-> a.tools])

install_tools_return ==
    /\ Awaiting("install_tools")
    /\ \E r \in Answered :
        Finish(r, ExceptAll(TryJson(r), r, "installing tools to", " the API: "))
    /\ UNCHANGED handles

sample_prompts_call ==
    /\ pc = "idle"
    /\ \E a \in [base_url : InjectedBaseUrls] :
        Call("sample_prompts", a, "GET", a.base_url \o <<"/sample_prompts/">>,
             [none |-> TRUE])

sample_prompts_return ==
    /\ Awaiting("sample_prompts")
    /\ \E r \in Answered :
        Finish(r, ExceptStatus(TryJson(r), r, <<"Failed to get sample prompts: ">>))
    /\ UNCHANGED handles

\* ----------------------------------------------------- entry: stream_entry
\* the input producer: the items it yields, and whether it then raises
\* instead of stopping
DataStreams == [items : SeqsUpTo(Dicts, MaxItems), raises : BOOLEAN]

\* has_ws: whether the injected client object provides `ws`
StreamArgs ==
    [base_url : BaseUrls, namespace : Namespaces, data_stream : DataStreams,
     has_ws : BOOLEAN]

\* what ws.receive_json() can return
Answers == {"r0", "r1"}

\* what the connection can raise into send_json / receive_json
StreamFaults == {"RequestError", "WebSocketError"}

\* the exception classes the installed httpx (0.27.0) provides, of those the
\* package names in its except clauses
HttpxExports == {"HTTPStatusError", "RequestError"}

StreamUrl(a) == a.base_url \o <<"/api/entry/">> \o a.namespace \o <<"/stream">>

\* `except httpx.WebSocketException as e:` reached by exception e; looking
\* up a name httpx does not provide raises AttributeError in place of e
InnerExcept(e, a) ==
    IF "WebSocketException" \notin HttpxExports
    THEN Raise("AttributeError",
               <<"module 'httpx' has no attribute 'WebSocketException'">>, "None")
    ELSE IF e.exc = "WebSocketException"
    THEN Raise("RuntimeError",
               <<"WebSocket communication error in namespace ">> \o a.namespace,
               e.exc)
    ELSE e

\* `except httpx.RequestError as e:` reached by exception e
OuterExcept(e, a) ==
    IF e.exc = "RequestError"
    THEN Raise("RuntimeError",
               <<"Failed to establish WebSocket connection to ">> \o StreamUrl(a),
               e.exc)
    ELSE e

AsyncWithExit_Leak(conns) == conns

\* leaving `async with http_client.ws(url) as ws:` closes the socket
AsyncWithExit(conns) ==
    [i \in 1..Len(conns) |-> [conns[i] EXCEPT !.open = FALSE]]

InStream(p) == fn = "stream_entry" /\ pc = p

\* exception e is raised inside the loop, at `at`: it leaves the inner try,
\* the async with and the outer try, and ends the generator
Unwind(at, e) ==
    /\ fault' = [at |-> at, exc |-> e.exc]
    /\ connections' = AsyncWithExit(connections)
    /\ pc' = "done"
    /\ outcome' = OuterExcept(InnerExcept(e, args), args)

\* the consumer asks for the first item: the body runs up to the connection
stream_entry_call ==
    /\ Callable("stream_entry")
    /\ \E a \in StreamArgs :
        /\ fn' = "stream_entry"
        /\ args' = a
        /\ IF a.has_ws
           THEN pc' = "connecting" /\ outcome' = outcome
           ELSE /\ pc' = "done"
                /\ outcome' = OuterExcept(
                       Raise("AttributeError",
                             <<"'AsyncClient' object has no attribute 'ws'">>,
                             "None"), a)
    /\ UNCHANGED <<handles, requests, response, streamvars, instancevars, result>>

\* entering the async with: the connection is established, or fails
stream_entry_connect ==
    /\ InStream("connecting")
    /\ \E c \in {"ok", "RequestError", "CancelledError"} :
        IF c = "ok"
        THEN /\ connections' = Append(connections,
                    [url |-> StreamUrl(args), established |-> TRUE, open |-> TRUE])
             /\ pc' = "pulling"
             /\ UNCHANGED <<outcome, fault>>
        ELSE /\ connections' = Append(connections,
                    [url |-> StreamUrl(args), established |-> FALSE, open |-> FALSE])
             /\ fault' = [at |-> "connect", exc |-> c]
             /\ pc' = "done"
             /\ outcome' = OuterExcept(Raise(c, <<"timed out">>, "None"), args)
    /\ UNCHANGED <<fn, args, handles, requests, response, frames, yielded,
                   instancevars, result>>

\* `async for data in data_stream`: the producer yields, stops or raises
stream_entry_pull ==
    /\ InStream("pulling")
    /\ IF Len(frames) < Len(args.data_stream.items)
       THEN pc' = "sending" /\ UNCHANGED <<outcome, connections, fault>>
       ELSE IF args.data_stream.raises
       THEN Unwind("producer", Raise("KeyError", <<"producer">>, "None"))
       ELSE /\ connections' = AsyncWithExit(connections)
            /\ pc' = "done"
            /\ outcome' = Return(NoValue)
            /\ UNCHANGED fault
    /\ UNCHANGED <<fn, args, handles, requests, response, frames, yielded,
                   instancevars, result>>

\* await ws.send_json(data)
stream_entry_send ==
    /\ InStream("sending")
    /\ \E c \in {"ok"} \cup StreamFaults :
        IF c = "ok"
        THEN /\ frames' = Append(frames,
                    [data |-> args.data_stream.items[Len(frames) + 1],
                     response |-> "none"])
             /\ pc' = "receiving"
             /\ UNCHANGED <<outcome, connections, fault>>
        ELSE /\ Unwind("send", Raise(c, <<"timed out">>, "None"))
             /\ UNCHANGED frames
    /\ UNCHANGED <<fn, args, handles, requests, response, yielded,
                   instancevars, result>>

stream_entry_receive_NoYield ==
    /\ InStream("receiving")
    /\ \E c \in Answers \cup StreamFaults :
        IF c \in Answers
        THEN /\ frames' = [frames EXCEPT ![Len(frames)].response = c]
             /\ pc' = "pulling"
             /\ UNCHANGED <<outcome, connections, fault, yielded>>
        ELSE /\ Unwind("receive", Raise(c, <<"timed out">>, "None"))
             /\ UNCHANGED <<frames, yielded>>
    /\ UNCHANGED <<fn, args, handles, requests, response,
                   instancevars, result>>

\* response = await ws.receive_json(); yield response
stream_entry_receive ==
    /\ InStream("receiving")
    /\ \E c \in Answers \cup StreamFaults :
        IF c \in Answers
        THEN /\ frames' = [frames EXCEPT ![Len(frames)].response = c]
             /\ yielded' = Append(yielded, c)
             /\ pc' = "yielded"
             /\ UNCHANGED <<outcome, connections, fault>>
        ELSE /\ Unwind("receive", Raise(c, <<"timed out">>, "None"))
             /\ UNCHANGED <<frames, yielded>>
    /\ UNCHANGED <<fn, args, handles, requests, response,
                   instancevars, result>>

\* the consumer asks for the next item
stream_entry_next ==
    /\ InStream("yielded")
    /\ pc' = "pulling"
    /\ UNCHANGED <<fn, args, handles, requests, response, outcome, streamvars,
                   instancevars, result>>

\* the consumer closes the generator: GeneratorExit is raised at the yield
stream_entry_aclose ==
    /\ InStream("yielded")
    /\ Unwind("yield", Raise("GeneratorExit", <<>>, "None"))
    /\ UNCHANGED <<fn, args, handles, requests, response, frames, yielded,
                   instancevars, result>>

\* the consumer's task is cancelled while the generator awaits inside
\* the loop
stream_entry_cancel ==
    /\ fn = "stream_entry"
    /\ pc \in {"pulling", "sending", "receiving"}
    /\ Unwind(pc, Raise("CancelledError", <<>>, "None"))
    /\ UNCHANGED <<fn, args, handles, requests, response, frames, yielded,
                   instancevars, result>>


\* ------------------------------------------------- chat: send_chat_media
\* chat_data is the caller's JSON text, passed on as it is
ChatDatas == {<<>>, <<"{\"messages\": []}">>}

MediaArgs ==
    [base_url : InjectedBaseUrls, user_id : UserIds, session_id : SessionIds,
     chat_data : ChatDatas, files : SeqsUpTo(ExistingPaths, MaxFiles)]

MediaErrors_ChatDataOnly(a) ==
    IF a.chat_data = <<>> THEN {<<"Chat data must not be empty">>} ELSE {}

\* the validation errors the arguments call for; which check comes first is
\* not laid down, so with both arguments empty either message can be raised
MediaErrors(a) ==
    (IF a.chat_data = <<>> THEN {<<"Chat data must not be empty">>} ELSE {})
    \cup (IF a.files = <<>> THEN {<<"Files list must not be empty">>} ELSE {})

send_chat_media_call ==
    /\ Callable("send_chat_media")
    /\ \E a \in MediaArgs :
        /\ fn' = "send_chat_media"
        /\ args' = a
        /\ IF MediaErrors(a) # {}
           THEN /\ \E msg \in MediaErrors(a) :
                     outcome' = Raise("ValueError", msg, "None")
                /\ pc' = "done"
                /\ UNCHANGED <<handles, requests>>
           ELSE LET opened == OpenAll(a.files, <<>>) IN
                /\ pc' = "awaiting"
                /\ handles' = opened.entries
                /\ requests' = Append(requests,
                       [method |-> "POST",
                        url |-> a.base_url \o <<"/chat_media">>,
                        kw |-> [data |-> [user_id |-> a.user_id,
                                          session_id |-> a.session_id,
                                          chat_data |-> a.chat_data],
                                files |-> Parts(opened.entries)]])
                /\ UNCHANGED outcome
    /\ result' = FacadeResult(outcome')
    /\ UNCHANGED <<response, streamvars, instancevars>>

send_chat_media_return ==
    /\ Awaiting("send_chat_media")
    /\ \E r \in Answered :
        Finish(r, ExceptAll(TryText(r), r, "sending chat media to",
                            " the chat API: "))
    /\ handles' = CloseAll(handles)

\* ------------------------------------------------ client: the methods
Enter_NewTransport(m) ==
    /\ pc \in {"idle", "done"}
    /\ pc = "idle" => method = "none"
    /\ calls < MaxCalls
    /\ calls' = calls + 1
    /\ method' = m
    /\ pc' = "idle"
    /\ fn' = "none"
    /\ args' = NoArgs
    /\ handles' = <<>>
    /\ requests' = <<>>
    /\ response' = NoResult
    /\ outcome' = NoOutcome
    /\ result' = NoOutcome
    /\ client' = [client EXCEPT !.http_client = "AsyncClient2"]
    /\ UNCHANGED <<ctor, is_closed, streamvars, tasks>>

\* a method of the instance is called; no other call is in progress
Enter(m) ==
    /\ pc \in {"idle", "done"}
    /\ pc = "idle" => method = "none"
    /\ calls < MaxCalls
    /\ calls' = calls + 1
    /\ method' = m
    /\ pc' = "idle"
    /\ fn' = "none"
    /\ args' = NoArgs
    /\ handles' = <<>>
    /\ requests' = <<>>
    /\ response' = NoResult
    /\ outcome' = NoOutcome
    /\ result' = NoOutcome
    /\ UNCHANGED <<ctor, client, is_closed, streamvars, tasks>>

HiveAgentClient_chat == client # NoClient /\ Enter("chat")
HiveAgentClient_get_chat_history == client # NoClient /\ Enter("get_chat_history")
HiveAgentClient_get_all_chats == client # NoClient /\ Enter("get_all_chats")
HiveAgentClient_chat_media == client # NoClient /\ Enter("chat_media")
HiveAgentClient_create_table == client # NoClient /\ Enter("create_table")
HiveAgentClient_insert_data == client # NoClient /\ Enter("insert_data")
HiveAgentClient_read_data == client # NoClient /\ Enter("read_data")
HiveAgentClient_update_data == client # NoClient /\ Enter("update_data")
HiveAgentClient_delete_data == client # NoClient /\ Enter("delete_data")
HiveAgentClient_upload_files == client # NoClient /\ Enter("upload_files")
HiveAgentClient_list_files == client # NoClient /\ Enter("list_files")
HiveAgentClient_delete_file == client # NoClient /\ Enter("delete_file")
HiveAgentClient_rename_file == client # NoClient /\ Enter("rename_file")
HiveAgentClient_install_tools == client # NoClient /\ Enter("install_tools")

HiveAgentClient_close_Noop ==
    /\ client # NoClient
    /\ pc \in {"idle", "done"}
    /\ pc = "idle" => method = "none"
    /\ calls < MaxCalls
    /\ calls' = calls + 1
    /\ method' = "close"
    /\ pc' = "done"
    /\ fn' = "none"
    /\ args' = NoArgs
    /\ handles' = <<>>
    /\ requests' = <<>>
    /\ response' = NoResult
    /\ outcome' = NoOutcome
    /\ result' = Return(NoValue)
    /\ UNCHANGED <<ctor, client, is_closed, streamvars, tasks>>

\* close(): await self.http_client.aclose()
HiveAgentClient_close ==
    /\ client # NoClient
    /\ pc \in {"idle", "done"}
    /\ pc = "idle" => method = "none"
    /\ calls < MaxCalls
    /\ calls' = calls + 1
    /\ method' = "close"
    /\ is_closed' = TRUE
    /\ pc' = "done"
    /\ fn' = "none"
    /\ args' = NoArgs
    /\ handles' = <<>>
    /\ requests' = <<>>
    /\ response' = NoResult
    /\ outcome' = NoOutcome
    /\ result' = Return(NoValue)
    /\ UNCHANGED <<ctor, client, streamvars, tasks>>

\* ------------------------------------------------------------ specification
Next ==
    \/ send_chat_message_call
    \/ send_chat_message_return
    \/ get_chat_history_call
    \/ get_chat_history_return
    \/ get_all_chats_call
    \/ get_all_chats_return
    \/ create_entry_call
    \/ create_entry_return
    \/ get_entries_call
    \/ get_entries_return
    \/ get_entry_by_id_call
    \/ get_entry_by_id_return
    \/ update_entry_call
    \/ update_entry_return
    \/ delete_entry_call
    \/ delete_entry_return
    \/ create_table_call
    \/ create_table_return
    \/ insert_data_call
    \/ insert_data_return
    \/ read_data_call
    \/ read_data_return
    \/ update_data_call
    \/ update_data_return
    \/ delete_data_call
    \/ delete_data_return
    \/ upload_files_call
    \/ upload_files_return
    \/ list_files_call
    \/ list_files_return
    \/ delete_file_call
    \/ delete_file_return
    \/ rename_file_call
    \/ rename_file_return
    \/ install_tools_call
    \/ install_tools_return
    \/ sample_prompts_call
    \/ sample_prompts_return
    \/ send_chat_media_call
    \/ send_chat_media_return
    \/ stream_entry_call
    \/ stream_entry_connect
    \/ stream_entry_pull
    \/ stream_entry_send
    \/ stream_entry_receive
    \/ stream_entry_next
    \/ stream_entry_aclose
    \/ stream_entry_cancel
    \/ HiveAgentClient_chat
    \/ HiveAgentClient_get_chat_history
    \/ HiveAgentClient_get_all_chats
    \/ HiveAgentClient_chat_media
    \/ HiveAgentClient_create_table
    \/ HiveAgentClient_insert_data
    \/ HiveAgentClient_read_data
    \/ HiveAgentClient_update_data
    \/ HiveAgentClient_delete_data
    \/ HiveAgentClient_upload_files
    \/ HiveAgentClient_list_files
    \/ HiveAgentClient_delete_file
    \/ HiveAgentClient_rename_file
    \/ HiveAgentClient_install_tools
    \/ HiveAgentClient_close

Spec == Init /\ [][Next]_vars

\* ------------------------------------- client: calls in flight together
\* Several coroutines call methods of one HiveAgentClient before any of them
\* has returned. A method's locals (its arguments, url, response) belong to
\* its own coroutine; the instance's base_url and http_client are shared.
TaskIds == 1..MaxTasks

ConcurrentMethods == {"get_chat_history", "get_all_chats", "insert_data"}

TaskArgs(m) ==
    CASE m = "get_chat_history" ->
           [base_url : InjectedBaseUrls, user_id : UserIds, session_id : SessionIds]
      [] m = "get_all_chats" ->
           [base_url : InjectedBaseUrls, user_id : UserIds]
      [] m = "insert_data" ->
           [base_url : InjectedBaseUrls, table_name : TableNames, data : Dicts]

\* the request the method's module function issues
TaskRequest(m, a) ==
    CASE m = "get_chat_history" -> get_chat_history_request(a)
      [] m = "get_all_chats" -> get_all_chats_request(a)
      [] m = "insert_data" -> insert_data_request(a)

\* what the method's module function makes of the transport's answer r
TaskOutcome(m, a, r) ==
    CASE m = "get_chat_history" -> get_chat_history_outcome(r)
      [] m = "get_all_chats" -> get_all_chats_outcome(r)
      [] m = "insert_data" -> insert_data_outcome(a, r)

\* the answers of the transport told apart here: two bodies, an error status
\* and a failure to connect
TaskAnswers ==
    {r \in TransportResults :
        \/ r.kind = "response" /\ r.status = 200
             /\ r.text \in {ServerJson(<<1>>), ServerJson(<<2>>)}
        \/ r.kind = "response" /\ r.status = 400 /\ r.text = <<"Bad request">>
        \/ r.kind = "RequestError"}

NoRequest == [method |-> "none", url |-> <<>>, kw |-> [params |-> <<>>]]

\* a coroutine that has not called a method yet
NoTask ==
    [pc |-> "idle", method |-> "none", args |-> NoArgs, request |-> NoRequest,
     during |-> {}, response |-> NoResult, outcome |-> NoOutcome,
     result |-> NoOutcome]

\* the calls whose request is with the transport
InFlight == {u \in DOMAIN tasks : tasks[u].pc \in {"awaiting", "answered"}}

\* everything but tasks: the state of a call made on its own
sequentialvars ==
    <<pc, fn, args, handles, requests, response, outcome, streamvars,
      ctor, client, is_closed, method, calls, result>>

InitConcurrent ==
    /\ pc = "idle"
    /\ fn = "none"
    /\ args = NoArgs
    /\ handles = <<>>
    /\ requests = <<>>
    /\ response = NoResult
    /\ outcome = NoOutcome
    /\ connections = <<>>
    /\ frames = <<>>
    /\ yielded = <<>>
    /\ fault = NoFault
    /\ ctor = [base_url |-> <<"http://x", "/">>, version |-> <<"v1">>]
    /\ client = HiveAgentClient_init(ctor)
    /\ is_closed = FALSE
    /\ method = "none"
    /\ calls = 0
    /\ result = NoOutcome
    /\ tasks = [t \in TaskIds |-> NoTask]

\* coroutine t calls a method, which runs up to `await http_client.<verb>(...)`;
\* `during` notes the calls in flight at that moment
Concurrent_call(t) ==
    /\ tasks[t].pc = "idle"
    /\ \E m \in ConcurrentMethods :
        \E a \in TaskArgs(m) :
            tasks' = [tasks EXCEPT ![t] =
                         [pc |-> "awaiting", method |-> m, args |-> a,
                          request |-> TaskRequest(m, a), during |-> InFlight,
                          response |-> NoResult, outcome |-> NoOutcome,
                          result |-> NoOutcome]]
    /\ UNCHANGED sequentialvars

\* the transport completes the request of coroutine t, in any order
Concurrent_respond(t) ==
    /\ tasks[t].pc = "awaiting"
    /\ \E r \in TaskAnswers :
        tasks' = [tasks EXCEPT ![t].pc = "answered", ![t].response = r]
    /\ UNCHANGED sequentialvars

Concurrent_resume_AnyResponse(t) ==
    /\ tasks[t].pc = "answered"
    /\ \E u \in InFlight :
        /\ tasks[u].pc = "answered"
        /\ LET o == TaskOutcome(tasks[t].method, tasks[t].args, tasks[u].response) IN
           tasks' = [tasks EXCEPT ![t].pc = "done", ![t].outcome = o,
                                  ![t].result = MethodResult(tasks[t].method, o)]
    /\ UNCHANGED sequentialvars

\* coroutine t is resumed with the response to its request and runs the
\* function and the method to their end
Concurrent_resume(t) ==
    /\ tasks[t].pc = "answered"
    /\ LET o == TaskOutcome(tasks[t].method, tasks[t].args, tasks[t].response) IN
       tasks' = [tasks EXCEPT ![t].pc = "done", ![t].outcome = o,
                              ![t].result = MethodResult(tasks[t].method, o)]
    /\ UNCHANGED sequentialvars

NextConcurrent ==
    \E t \in TaskIds :
        \/ Concurrent_call(t)
        \/ Concurrent_respond(t)
        \/ Concurrent_resume(t)

SpecConcurrent == InitConcurrent /\ [][NextConcurrent]_vars

\* ================================================================ claims
Done(f) == fn = f /\ pc = "done"
Success == response.kind = "response" /\ response.status \in 200..299
NonSuccess == response.kind = "response" /\ response.status \notin 200..299

\* content is empty or consists only of whitespace
Blank(content) == \A i \in 1..Len(content) : content[i] \in Whitespace

\* the string a JSON reader gets back from the inside of a JSON string literal
RECURSIVE JsonUnescape(_)
JsonUnescape(s) ==
    IF s = <<>> THEN <<>>
    ELSE IF Head(s) = "\\" /\ Len(s) >= 2
    THEN <<(CASE s[2] = "n" -> "\n" [] OTHER -> s[2])>> \o JsonUnescape(Tail(Tail(s)))
    ELSE <<Head(s)>> \o JsonUnescape(Tail(s))

\* no character that would end or break the JSON string literal
RECURSIVE WellEscaped(_)
WellEscaped(s) ==
    IF s = <<>> THEN TRUE
    ELSE IF Head(s) = "\\" THEN Len(s) >= 2 /\ WellEscaped(Tail(Tail(s)))
    ELSE Head(s) \notin {"\"", "\n"} /\ WellEscaped(Tail(s))

\* the messages list a JSON reader finds in the chat_data form field
MessagesOf(chat_data) ==
    IF /\ Len(chat_data) >= 2
       /\ Head(chat_data) = ChatDataPrefix
       /\ Last(chat_data) = ChatDataSuffix
       /\ WellEscaped(SubSeq(chat_data, 2, Len(chat_data) - 1))
    THEN <<[role |-> "user",
            content |-> JsonUnescape(SubSeq(chat_data, 2, Len(chat_data) - 1))]>>
    ELSE <<>>

AllOpenable(files) ==
    \A i \in 1..Len(files) : files[i].kind = "str" => files[i].path \in ExistingPaths

\* C1: send_chat_message with empty or whitespace-only content raises
\* ValueError("Content must not be empty") with no call on the transport and
\* no file opened, whatever user_id, session_id and files are.
C1_BlankContentRaisesBeforeIO ==
    (fn = "send_chat_message" /\ Blank(args.content)) =>
        /\ pc = "done"
        /\ outcome.kind = "raise"
        /\ outcome.exc = "ValueError"
        /\ outcome.msg = <<"Content must not be empty">>
        /\ requests = <<>>
        /\ handles = <<>>

C1_Witness ==
    /\ Done("send_chat_message")
    /\ Len(args.content) = 2 /\ Blank(args.content)
    /\ \E i \in 1..Len(args.files) :
         args.files[i].kind = "str" /\ args.files[i].path \in ExistingPaths
    /\ outcome.exc = "ValueError"

\* the POST of send_chat_message carries one user message with the caller's content
OnePostWithMessage ==
    /\ Len(requests) = 1
    /\ requests[1].method = "POST"
    /\ requests[1].url = args.base_url \o <<"/chat">>
    /\ "data" \in DOMAIN requests[1].kw
    /\ MessagesOf(requests[1].kw.data.chat_data)
           = <<[role |-> "user", content |-> args.content]>>

ReturnsResponseText ==
    (pc = "done" /\ Success) =>
        /\ outcome.kind = "return"
        /\ outcome.value.t = "text"
        /\ outcome.value.text = response.text

C3_JsonBodyWithoutFiles ==
    (fn = "send_chat_message" /\ ~Blank(args.content) /\ args.files = <<>>) =>
        /\ Len(requests) = 1
        /\ requests[1].method = "POST"
        /\ requests[1].url = args.base_url \o <<"/chat">>
        /\ DOMAIN requests[1].kw = {"json"}
        /\ requests[1].kw.json =
               [user_id |-> args.user_id, session_id |-> args.session_id,
                chat_data |-> [messages |->
                    <<[role |-> "user", content |-> args.content]>>]]
        /\ ReturnsResponseText

StatusInMessage == {"send_chat_message", "send_chat_media", "get_chat_history",
                    "get_all_chats", "install_tools"}

ChatFunctions == {"send_chat_message", "get_chat_history", "get_all_chats"}

EntryDatabaseFiles ==
    {"create_entry", "get_entries", "get_entry_by_id", "update_entry",
     "delete_entry", "create_table", "insert_data", "read_data", "update_data",
     "delete_data", "upload_files", "list_files", "delete_file", "rename_file"}

\* C6: every non-stream operation of the entry, database and files modules
\* re-raises a non-2xx status, a transport fault and any other unexpected fault
\* as its wrapped Exception; the raw underlying exception never propagates.
C6_EntryDatabaseFilesWrapFaults ==
    (fn \in EntryDatabaseFiles /\ pc = "done" /\ Len(requests) = 1
         /\ outcome.kind = "raise") =>
        outcome.exc = "Exception"

\* C7: get_chat_history and get_all_chats issue exactly one GET with user_id
\* (and session_id for the history) as query parameters and, for every JSON
\* payload P the server sends with a 2xx status, return P unchanged.
C7_HistoryReturnsPayload ==
    (fn \in {"get_chat_history", "get_all_chats"}) =>
        /\ Len(requests) = 1
        /\ requests[1].method = "GET"
        /\ requests[1].url = args.base_url
               \o (IF fn = "get_chat_history" THEN <<"/chat_history">>
                   ELSE <<"/all_chats">>)
        /\ requests[1].kw =
               (IF fn = "get_chat_history"
                THEN [params |-> [user_id |-> args.user_id,
                                  session_id |-> args.session_id]]
                ELSE [params |-> [user_id |-> args.user_id]])
        /\ \A P \in Payloads :
               (pc = "done" /\ Success /\ response.text = ServerJson(P)) =>
                   /\ outcome.kind = "return"
                   /\ outcome.value.t = "json"
                   /\ outcome.value.json = P

C7_Witness ==
    /\ Done("get_all_chats")
    /\ Success /\ response.text = ServerJson(<<2, 1>>)
    /\ outcome.value.json = <<2, 1>>

AllExist(file_paths) == \A i \in 1..Len(file_paths) : file_paths[i] \in ExistingPaths

\* C8: upload_files with N openable paths issues exactly one POST to
\* {base_url}/uploadfiles/ with exactly N file parts, and when the call has
\* ended (2xx, non-2xx or transport fault) all N opened handles are closed.
C8_UploadClosesHandles ==
    (fn = "upload_files" /\ AllExist(args.file_paths)) =>
        /\ Len(requests) = 1
        /\ requests[1].method = "POST"
        /\ requests[1].url = args.base_url \o <<"/uploadfiles/">>
        /\ DOMAIN requests[1].kw = {"files"}
        /\ Len(requests[1].kw.files) = Len(args.file_paths)
        /\ Len(handles) = Len(args.file_paths)
        /\ pc = "done" => \A i \in 1..Len(handles) : ~handles[i].open

C8_Witness ==
    /\ Done("upload_files")
    /\ Len(args.file_paths) = 2 /\ AllExist(args.file_paths)
    /\ response.kind = "RequestError"
    /\ outcome.kind = "raise"
    /\ \A i \in 1..2 : ~handles[i].open

\* C9: in upload_files, when opening the k-th path raises, the handles opened
\* for paths 1..k-1 are closed before the error reaches the caller: no handle
\* is open once the call has ended.
C9_UploadClosesOnOpenFailure ==
    Done("upload_files") => \A i \in 1..Len(handles) : ~handles[i].open

\* C10: in send_chat_message every handle the function opened from a path is
\* closed once the call has ended, on every exit path, a failure to open a
\* later path of the same files list included.
C10_ChatClosesOwnHandles ==
    Done("send_chat_message") =>
        \A i \in 1..Len(handles) : handles[i].owner = "library" => ~handles[i].open

\* C11: the upload handles the caller supplies to send_chat_message
\* (UploadFile objects) are still open once the call has ended, on every exit
\* path and whatever the type of the underlying file object.
C11_CallerHandlesStayOpen ==
    Done("send_chat_message") =>
        \A i \in 1..Len(handles) : handles[i].owner = "caller" => handles[i].open

\* the consumer iterated stream_entry to its end and nothing outside the
\* function went wrong: no connection, send, receive or producer fault, no
\* cancellation, no early close
StreamRanToEnd ==
    /\ Done("stream_entry")
    /\ ~args.data_stream.raises
    /\ fault = NoFault

\* C12: stream_entry over N inputs, with a server that answers every frame,
\* yields exactly N responses, the i-th being the answer to the i-th input
\* sent, over exactly one WebSocket connection, to
\* {base_url}/api/entry/{namespace}/stream, opened and closed in the call.
C12_StreamYieldsOnePerInput ==
    StreamRanToEnd =>
        LET items == args.data_stream.items IN
        /\ outcome.kind = "return"
        /\ Len(yielded) = Len(items)
        /\ Len(frames) = Len(items)
        /\ \A i \in 1..Len(items) :
             /\ frames[i].data = items[i]
             /\ yielded[i] = frames[i].response
        /\ Len(connections) = 1
        /\ connections[1].url =
               args.base_url \o <<"/api/entry/">> \o args.namespace \o <<"/stream">>
        /\ connections[1].established
        /\ ~connections[1].open

\* C13: the WebSocket stream_entry opened is closed however the call ends
\* (inputs exhausted, generator closed early, task cancelled, send or receive
\* fault, producer error): no state has the call ended and its socket open.
C13_SocketClosedWhenEnded ==
    Done("stream_entry") => \A i \in 1..Len(connections) : ~connections[i].open

C13_Witness ==
    /\ Done("stream_entry")
    /\ fault = [at |-> "receiving", exc |-> "CancelledError"]
    /\ Len(frames) = 2
    /\ Len(connections) = 1
    /\ connections[1].established /\ ~connections[1].open

\* C14: a WebSocket fault during send or receive ends stream_entry with
\* RuntimeError 'WebSocket communication error in namespace {namespace}', a
\* fault while establishing the connection with RuntimeError 'Failed to
\* establish WebSocket connection to {url}', each with the fault as its cause.
C14_StreamFaultKinds ==
    Done("stream_entry") =>
        /\ (fault.at \in {"send", "receive"} /\ fault.exc = "WebSocketError") =>
             /\ outcome.kind = "raise" /\ outcome.exc = "RuntimeError"
             /\ outcome.msg =
                    <<"WebSocket communication error in namespace ">> \o args.namespace
             /\ outcome.cause = fault.exc
        /\ (fault.at = "connect" /\ fault.exc = "RequestError") =>
             /\ outcome.kind = "raise" /\ outcome.exc = "RuntimeError"
             /\ outcome.msg =
                    <<"Failed to establish WebSocket connection to ">>
                        \o connections[1].url
             /\ outcome.cause = fault.exc

\* the first component of the path each operation requests
OperationPath(m) ==
    CASE m = "chat" -> "/chat"
      [] m = "get_chat_history" -> "/chat_history"
      [] m = "get_all_chats" -> "/all_chats"
      [] m = "chat_media" -> "/chat_media"
      [] m = "create_table" -> "/database/create-table"
      [] m = "insert_data" -> "/database/insert-data"
      [] m = "read_data" -> "/database/read-data"
      [] m = "update_data" -> "/database/update-data"
      [] m = "delete_data" -> "/database/delete-data"
      [] m = "upload_files" -> "/uploadfiles/"
      [] m = "list_files" -> "/files/"
      [] m = "delete_file" -> "/files/"
      [] m = "rename_file" -> "/files/"
      [] m = "install_tools" -> "/install_tools"

\* C15: the constructor drops one trailing slash of base_url and appends
\* "/{version}" ("http://x/" and "http://x" with "v1" both give "http://x/v1"),
\* and every request of every method of the instance goes to that value
\* followed by the operation's path.
C15_NormalizedBaseUrl ==
    client # NoClient =>
        /\ ctor.base_url \in {<<"http://x">>, <<"http://x", "/">>} =>
               client.base_url = <<"http://x", "/", "v1">>
        /\ ctor.base_url = <<"http://x", "/", "/">> =>
               client.base_url = <<"http://x", "/", "/", "v1">>
        /\ \A i \in 1..Len(requests) :
             LET url == requests[i].url
                 n == Len(client.base_url) IN
             /\ Len(url) > n
             /\ SubSeq(url, 1, n) = client.base_url
             /\ url[n + 1] = OperationPath(method)

C15_Witness ==
    /\ ctor.base_url = <<"http://x", "/">>
    /\ calls = 2
    /\ method = "rename_file"
    /\ pc = "done"
    /\ requests[1].url =
           <<"http://x", "/", "v1", "/files/", "a.txt", "/", "b.txt">>

\* 'Failed to <operation>: ', per method
FailedTo(m) ==
    CASE m = "chat" -> "Failed to send chat message: "
      [] m = "get_chat_history" -> "Failed to get chat history: "
      [] m = "get_all_chats" -> "Failed to get all chats: "
      [] m = "chat_media" -> "Failed to send chat media: "
      [] m = "create_table" -> "Failed to create table: "
      [] m = "insert_data" -> "Failed to insert data: "
      [] m = "read_data" -> "Failed to read data: "
      [] m = "update_data" -> "Failed to update data: "
      [] m = "delete_data" -> "Failed to delete data: "
      [] m = "upload_files" -> "Failed to upload files: "
      [] m = "list_files" -> "Failed to list files: "
      [] m = "delete_file" -> "Failed to delete file: "
      [] m = "rename_file" -> "Failed to rename file: "
      [] m = "install_tools" -> "Failed to install tools: "

\* a method of the instance has run to its end
MethodEnded == client # NoClient /\ method # "none" /\ pc = "done"

\* C16: when the module function a method awaits raises, the method raises a
\* new error whose message is 'Failed to <operation>: ' followed by the
\* original message; when it returns, the method returns that value unchanged.
C16_FacadeWrapsErrors ==
    MethodEnded =>
        /\ outcome.kind = "raise" =>
             /\ result.kind = "raise"
             /\ result.exc = "Exception"
             /\ result.msg = <<FailedTo(method)>> \o outcome.msg
        /\ outcome.kind = "return" => result = outcome

C16_Witness ==
    /\ MethodEnded
    /\ method = "create_table"
    /\ response.kind = "response" /\ response.status = 400
    /\ outcome.kind = "raise"
    /\ result.kind = "raise"
    /\ result.msg[1] = "Failed to create table: "
    /\ SubSeq(result.msg, 2, 4) = <<"Failed to create table ", "t1", ": ">>

\* C17: after any sequence of operations on the instance, successful or
\* failing, close included, its base_url and its http_client are the values
\* the constructor set.
C17_ConfigurationImmutable ==
    client # NoClient =>
        /\ client.http_client = "AsyncClient"
        /\ client.base_url = HiveAgentClient_init(ctor).base_url

C17_Witness ==
    /\ client # NoClient
    /\ calls = 2
    /\ is_closed
    /\ method = "install_tools"
    /\ pc = "done"
    /\ result.kind = "raise"
    /\ client = HiveAgentClient_init(ctor)

\* C18: the instance's transport is open from construction until close() is
\* called and closed from then on: no step other than close() closes it, a
\* failing operation included, and when close() has completed it is closed.
C18_TransportOpenUntilClose ==
    /\ ~is_closed
    /\ [][/\ is_closed' # is_closed => (is_closed' /\ method' = "close")
          /\ method' = "close" => is_closed']_vars

C18_Witness ==
    /\ client # NoClient
    /\ calls = 2
    /\ method = "close"
    /\ pc = "done"
    /\ is_closed

\* C19: send_chat_media raises ValueError 'Chat data must not be empty' when
\* chat_data is empty and ValueError 'Files list must not be empty' when the
\* files list is empty, in both cases before any I/O: no file is opened and no
\* request is issued.
C19_MediaValidatesBeforeIO ==
    (fn = "send_chat_media" /\ (args.chat_data = <<>> \/ args.files = <<>>)) =>
        /\ pc = "done"
        /\ outcome.kind = "raise"
        /\ outcome.exc = "ValueError"
        /\ args.files # <<>> => outcome.msg = <<"Chat data must not be empty">>
        /\ args.chat_data # <<>> => outcome.msg = <<"Files list must not be empty">>
        /\ outcome.msg \in {<<"Chat data must not be empty">>,
                            <<"Files list must not be empty">>}
        /\ requests = <<>>
        /\ handles = <<>>

C19_Witness ==
    /\ Done("send_chat_media")
    /\ args.chat_data # <<>>
    /\ args.files = <<>>
    /\ outcome.msg = <<"Files list must not be empty">>
    /\ requests = <<>>

DatabaseFunctions ==
    {"create_table", "insert_data", "read_data", "update_data", "delete_data"}

\* the method, sub-path and body the claim gives for each database operation
DatabaseRequest(f, a) ==
    CASE f = "create_table" ->
           [method |-> "POST", url |-> a.base_url \o <<"/database/create-table">>,
            kw |-> [json |-> [table_name |-> a.table_name, columns |-> a.columns]]]
      [] f = "insert_data" ->
           [method |-> "POST", url |-> a.base_url \o <<"/database/insert-data">>,
            kw |-> [json |-> [table_name |-> a.table_name, data |-> a.data]]]
      [] f = "read_data" ->
           [method |-> "POST", url |-> a.base_url \o <<"/database/read-data">>,
            kw |-> [json |-> [table_name |-> a.table_name, filters |-> a.filters]]]
      [] f = "update_data" ->
           [method |-> "PUT", url |-> a.base_url \o <<"/database/update-data">>,
            kw |-> [json |-> [table_name |-> a.table_name, id |-> a.row_id,
                              data |-> a.new_data]]]
      [] f = "delete_data" ->
           [method |-> "DELETE", url |-> a.base_url \o <<"/database/delete-data">>,
            kw |-> [content |-> <<"{\"table_name\": \"">> \o a.table_name
                                   \o <<"\", \"id\": ">> \o a.row_id \o <<"}">>]]

\* C20: each of the five database operations issues a single request with
\* its fixed method, sub-path and body (create_table POST
\* /database/create-table {table_name, columns}; insert_data POST
\* /database/insert-data {table_name, data}; read_data POST
\* /database/read-data {table_name, filters}, filters null when not supplied;
\* update_data PUT /database/update-data {table_name, id, data}; delete_data
\* DELETE /database/delete-data {table_name, id}) and returns the JSON payload
\* of a 2xx response unchanged.
C20_DatabaseRequests ==
    fn \in DatabaseFunctions =>
        /\ requests = <<DatabaseRequest(fn, args)>>
        /\ \A P \in Payloads :
               (pc = "done" /\ Success /\ response.text = ServerJson(P)) =>
                   /\ outcome.kind = "return"
                   /\ outcome.value.t = "json"
                   /\ outcome.value.json = P

C20_Witness ==
    /\ Done("read_data")
    /\ args.filters = "None"
    /\ requests[1].kw.json.filters = "None"
    /\ requests[1].method = "POST"
    /\ Success /\ response.text = ServerJson(<<1, 2>>)
    /\ outcome.value.json = <<1, 2>>

EntryFunctions ==
    {"create_entry", "get_entries", "get_entry_by_id", "update_entry",
     "delete_entry"}

\* the method, path and body the claim gives for each entry operation
EntryRequest(f, a) ==
    LET collection == a.base_url \o <<"/api/entry/">> \o a.namespace IN
    CASE f = "create_entry" ->
           [method |-> "POST", url |-> collection, kw |-> [json |-> a.data]]
      [] f = "get_entries" ->
           [method |-> "GET", url |-> collection, kw |-> [none |-> TRUE]]
      [] f = "get_entry_by_id" ->
           [method |-> "GET", url |-> collection \o <<"/">> \o a.entry_id,
            kw |-> [none |-> TRUE]]
      [] f = "update_entry" ->
           [method |-> "PUT", url |-> collection \o <<"/">> \o a.entry_id,
            kw |-> [json |-> a.data]]
      [] f = "delete_entry" ->
           [method |-> "DELETE", url |-> collection \o <<"/">> \o a.entry_id,
            kw |-> [none |-> TRUE]]

\* C21: create_entry POSTs and get_entries GETs
\* {base_url}/api/entry/{namespace}; get_entry_by_id GETs, update_entry PUTs
\* and delete_entry DELETEs {base_url}/api/entry/{namespace}/{entry_id};
\* create and update carry the caller's data unchanged as the JSON body, the
\* others carry no body, and each returns the JSON payload of a 2xx response
\* unchanged.
C21_EntryRequests ==
    fn \in EntryFunctions =>
        /\ requests = <<EntryRequest(fn, args)>>
        /\ \A P \in Payloads :
               (pc = "done" /\ Success /\ response.text = ServerJson(P)) =>
                   /\ outcome.kind = "return"
                   /\ outcome.value.t = "json"
                   /\ outcome.value.json = P

C21_Witness ==
    /\ Done("delete_entry")
    /\ requests[1].method = "DELETE"
    /\ requests[1].url = <<"http://h/v1", "/api/entry/", "ns", "/", "e1">>
    /\ Success /\ response.text = ServerJson(<<2>>)
    /\ outcome.value.json = <<2>>

\* C22: no module function other than the stream, and so no method of the
\* instance, issues more than one request on the transport per call, whether
\* the answer is a 2xx response, a non-2xx response or a transport fault: once
\* the transport has answered, exactly one request has been issued.
C22_NoRetries ==
    fn # "stream_entry" =>
        /\ Len(requests) <= 1
        /\ response # NoResult => Len(requests) = 1

C22_Witness ==
    /\ MethodEnded
    /\ method = "create_table"
    /\ response.kind = "RequestError"
    /\ result.kind = "raise"
    /\ Len(requests) = 1

\* the frames of the stream the server has answered
Received == {i \in 1..Len(frames) : frames[i].response # "none"}

\* C24: stream_entry is one-request-one-response: input i is sent, then one
\* response is received, then it is yielded, and input i+1 is asked of the
\* producer only after the consumer has resumed; in every state frames sent
\* minus frames received is 0 or 1, and frames received minus responses
\* yielded is 0 or 1.
C24_OneRequestOneResponse ==
    fn = "stream_entry" =>
        /\ Len(frames) - Cardinality(Received) \in {0, 1}
        /\ Cardinality(Received) - Len(yielded) \in {0, 1}
        /\ Received = 1..Cardinality(Received)
        /\ \A i \in 1..Len(frames) : frames[i].data = args.data_stream.items[i]
        /\ \A i \in 1..Len(yielded) : yielded[i] = frames[i].response
        /\ pc \in {"pulling", "sending"} => Len(yielded) = Len(frames)
        /\ pc = "receiving" =>
               Len(frames) = Len(yielded) + 1 /\ Cardinality(Received) = Len(yielded)
        /\ pc = "yielded" =>
               Len(yielded) = Len(frames) /\ Cardinality(Received) = Len(frames)

C24_Witness ==
    /\ InStream("receiving")
    /\ Len(frames) = 2
    /\ frames[1].response = "r1"
    /\ yielded = <<"r1">>
    /\ frames[2].response = "none"

\* C25: with a finite input of length N, a server that answers every frame
\* and a consumer that keeps iterating, stream_entry terminates only after
\* yielding N responses (and sends nothing more once it has ended): a call
\* that has ended with no fault from outside has sent N frames and yielded N
\* responses.
C25_EndsAfterAllInputs ==
    (Done("stream_entry") /\ ~args.data_stream.raises /\ fault = NoFault) =>
        /\ Len(frames) = Len(args.data_stream.items)
        /\ Len(yielded) = Len(args.data_stream.items)

\* the module functions that wrap the errors of their request
WrappingFunctions ==
    ChatFunctions \cup EntryFunctions \cup DatabaseFunctions
        \cup {"upload_files", "list_files", "delete_file", "rename_file",
              "install_tools", "sample_prompts"}

\* C26: whenever a module function (chat, entry, database, files, tools,
\* sample prompts) raises its generic error for a failure of its request, the
\* error's explicit cause is the underlying httpx error.
C26_WrapperKeepsCause ==
    (fn \in WrappingFunctions /\ pc = "done" /\ response # NoResult
         /\ outcome.kind = "raise" /\ outcome.exc = "Exception") =>
        /\ NonSuccess => outcome.cause = "HTTPStatusError"
        /\ response.kind = "RequestError" => outcome.cause = "RequestError"

\* C27: HiveAgentClient.chat with empty or whitespace-only content makes no
\* network call and raises the generic wrapped error 'Failed to send chat
\* message: Content must not be empty', not ValueError.
C27_FacadeChatBlankContent ==
    (client # NoClient /\ method = "chat" /\ fn = "send_chat_message"
         /\ Blank(args.content)) =>
        /\ requests = <<>>
        /\ pc = "done"
        /\ result.kind = "raise"
        /\ result.exc = "Exception"
        /\ result.exc # "ValueError"
        /\ result.msg = <<"Failed to send chat message: ",
                          "Content must not be empty">>

C27_Witness ==
    /\ MethodEnded
    /\ method = "chat"
    /\ fn = "send_chat_message"
    /\ args.content = <<" ">>
    /\ requests = <<>>
    /\ outcome.exc = "ValueError"
    /\ result.exc = "Exception"
    /\ result.msg = <<"Failed to send chat message: ", "Content must not be empty">>

\* C28: in stream_entry an httpx.RequestError raised inside the loop, during
\* send or receive, also after pairs were exchanged, reaches the consumer as
\* RuntimeError 'Failed to establish WebSocket connection to {url}' with the
\* RequestError as its cause.
C28_RequestErrorInsideLoop ==
    (Done("stream_entry") /\ fault.at \in {"send", "receive"}
         /\ fault.exc = "RequestError") =>
        /\ outcome.kind = "raise"
        /\ outcome.exc = "RuntimeError"
        /\ outcome.msg = <<"Failed to establish WebSocket connection to ",
                           "http://h/v1", "/api/entry/">>
                             \o args.namespace \o <<"/stream">>
        /\ outcome.cause = "RequestError"

\* C29: when the producer raises while stream_entry asks it for the next
\* item, no further frame is sent, the responses yielded are exactly those of
\* the items sent before, the WebSocket is closed and the producer's own
\* error reaches the consumer.
C29_ProducerRaises ==
    (Done("stream_entry") /\ fault.at = "producer") =>
        /\ Len(frames) = Len(args.data_stream.items)
        /\ yielded = [i \in 1..Len(frames) |-> frames[i].response]
        /\ \A i \in 1..Len(connections) : ~connections[i].open
        /\ outcome.kind = "raise"
        /\ outcome.exc = "KeyError"

\* C30: no module function closes or replaces the injected transport: no step
\* of a module-level call, returning or raising, changes whether http_client
\* is open or which client it is, so that when an operation of a
\* HiveAgentClient has failed the transport is as the operation found it.
C30_ModuleCallsLeaveTransport ==
    [][/\ calls' = calls => (is_closed' = is_closed /\ client' = client)
       /\ (MethodEnded /\ result.kind = "raise" /\ method' # "close") =>
              (is_closed' = is_closed /\ client' = client)]_vars

C30_Witness ==
    /\ client = HiveAgentClient_init(ctor)
    /\ calls = 2
    /\ method = "upload_files"
    /\ pc = "done"
    /\ response.kind = "RequestError"
    /\ result.kind = "raise"
    /\ ~is_closed

\* the request method m makes for arguments a on this instance
OwnRequest(m, a, req) ==
    /\ req.url = client.base_url \o <<OperationPath(m)>>
    /\ m = "get_chat_history" =>
           req.method = "GET" /\ req.kw.params.user_id = a.user_id
    /\ m = "get_all_chats" =>
           req.method = "GET" /\ req.kw.params.user_id = a.user_id
    /\ m = "insert_data" =>
           req.method = "POST" /\ req.kw.json.data = a.data

\* res is what method m makes of the transport's answer r
DerivedFrom(m, r, res) ==
    /\ (r.kind = "response" /\ r.status = 200) =>
           /\ res.kind = "return"
           /\ r.text = ServerJson(res.value.json)
    /\ (r.kind = "response" /\ r.status = 400) =>
           /\ res.kind = "raise"
           /\ res.exc = "Exception"
           /\ res.msg[1] = FailedTo(m)
           /\ Contains(res.msg, r.text)
    /\ r.kind = "RequestError" =>
           /\ res.kind = "raise"
           /\ res.msg[1] = FailedTo(m)
           /\ Contains(res.msg, r.text)

\* C23: for any interleaving of two or more calls in flight together on one
\* HiveAgentClient, each call's request is the one of its own arguments and
\* its result is the value or error derived from the response to its own
\* request; a step of one call changes nothing of another call, and a result
\* once produced stays whatever the other calls do.
C23_ConcurrentCallsIndependent ==
    /\ [](\A t \in DOMAIN tasks :
            /\ tasks[t].pc # "idle" =>
                   OwnRequest(tasks[t].method, tasks[t].args, tasks[t].request)
            /\ tasks[t].pc = "done" =>
                   DerivedFrom(tasks[t].method, tasks[t].response, tasks[t].result))
    /\ [][\A t, u \in DOMAIN tasks :
            /\ (t # u /\ tasks'[t] # tasks[t]) => tasks'[u] = tasks[u]
            /\ tasks[t].pc = "done" => tasks'[t] = tasks[t]]_vars

C23_Witness ==
    /\ tasks[1].pc = "done"
    /\ tasks[2].pc = "done"
    /\ tasks[1].during = {}
    /\ tasks[2].during = {1}
    /\ tasks[1].method = "insert_data"
    /\ tasks[2].method = "insert_data"
    /\ tasks[1].args.data = "d0"
    /\ tasks[2].args.data = "d1"
    /\ tasks[1].response.status = 400
    /\ tasks[1].result.kind = "raise"
    /\ tasks[2].response.text = ServerJson(<<2>>)
    /\ tasks[2].result.kind = "return"
    /\ tasks[2].result.value.json = <<2>>

====
